---- MODULE Spec2Model ----
(***************************************************************************)
(* The alist dynamic array of HenryZhao2020/ADT and the datatype           *)
(* descriptor it delegates to.                                             *)
(*                                                                         *)
(* The repository holds two builds of alist: the first one at the root     *)
(* (src/alist.c, called "v1" here) and the current one under src/          *)
(* (src/src/alist.c, "v2").  The variable impl says which build a          *)
(* behaviour runs; it never changes.  The functions whose bodies are the   *)
(* same in both builds are modelled once.                                  *)
(*                                                                         *)
(* Element handles are heap addresses.  heap[h] is the block at address h: *)
(* the int it holds and how many times it was freed.  Addresses are never  *)
(* reused, so a freed handle stays recognisable.  A negative handle is the *)
(* address of a caller's temporary (WRAP_INT), NULL is 0.                  *)
(*                                                                         *)
(* al.data models the memory at al->data, slot by slot, for MaxCap slots:  *)
(* slots at or beyond al.capacity are outside the allocated block.         *)
(***************************************************************************)
EXTENDS Integers, Sequences, FiniteSets, TLC

\* Bounds of the model.
MaxCap == 4
MaxHeap == 5
MaxVal == 1
MaxSrc == 2

NULL == 0

\* size_t is modelled 8 bits wide.
SIZE_MAX == 255
ALIST_INDEX_NOT_FOUND == SIZE_MAX

VARIABLES impl, heap, al, src, call, bs

vars == <<impl, heap, al, src, call, bs>>

Values == 0..MaxVal
Slots == 0..(MaxCap - 1)

\* The address of a caller's temporary holding v: WRAP_INT(v).
CallerPtr(v) == -(v + 1)
CallerPtrs == {CallerPtr(v) : v \in Values}

\* The int at address p.
Deref(hp, p) == IF p < 0 THEN -p - 1 ELSE hp[p].val

Live(hp, h) == h \in 1..Len(hp) /\ hp[h].frees = 0

cmp_int(x, y) == (IF x > y THEN 1 ELSE 0) - (IF x < y THEN 1 ELSE 0)

data_cmp(hp, a, b) == cmp_int(Deref(hp, a), Deref(hp, b))

\* A dup that hands back the pointer it was given.
data_dup_alias(hp, item, mallocOk) ==
  IF mallocOk THEN [h |-> item, heap |-> hp] ELSE [h |-> NULL, heap |-> hp]

\* dup_int: a fresh block holding a copy of *item, or NULL when malloc fails.
\* Yields the handle and the heap.
data_dup(hp, item, mallocOk) ==
  IF mallocOk
    THEN [h |-> Len(hp) + 1,
          heap |-> Append(hp, [val |-> Deref(hp, item), frees |-> 0])]
    ELSE [h |-> NULL, heap |-> hp]

data_destroy(hp, h) ==
  IF h = NULL \/ h < 0 THEN hp ELSE [hp EXCEPT ![h].frees = @ + 1]

is_odd == [v \in 0..(MaxVal + 1) |-> v % 2 # 0]

EmptyData == [i \in Slots |-> NULL]

alist_create_size(init_cap) ==
  [data |-> EmptyData, len |-> 0, capacity |-> init_cap, dangling |-> FALSE]

\* The outcome of a call: the array, the heap, whether it reported success,
\* and why it failed ("dup": data_dup answered NULL, "grow": realloc did).
\* idx is the index a removal returns, k counts the steps of a bulk call,
\* item is the item the caller gave.
Outcome(a, hp, ok, cause) ==
  [al |-> a, heap |-> hp, ok |-> ok, cause |-> cause, idx |-> 0, k |-> 0,
   item |-> NULL]

\* What realloc(al->data, n * sizeof(void *)) can answer.  For n > 0 it is a
\* block of n slots ("block") or NULL with the old block intact ("null").
\* A request for zero bytes is left to the implementation by C99: a block of
\* no usable size ("block"), NULL with the old block intact ("null"), or NULL
\* with the old block freed ("freed").
ReallocAnswers(n) ==
  IF n = 0 THEN {"block", "null", "freed"} ELSE {"block", "null"}

\* The array after a realloc that answered NULL: al->data is left as it was,
\* and points to freed memory when the old block was freed.
ReallocFailed(a, answer) ==
  IF answer = "freed" THEN [a EXCEPT !.dangling = TRUE] ELSE a

\* The doubling of alist_append and alist_insert when len = capacity.
NeedsGrow(a) == a.len = a.capacity

\* A growth by one slot.
Grow_by_one(a) == [a EXCEPT !.capacity = a.capacity + 1]

\* A growth into a new block that the old slots are not copied to.
Grow_without_copy(a) == [a EXCEPT !.capacity = a.capacity * 2, !.data = EmptyData]

Grow(a) == [a EXCEPT !.capacity = a.capacity * 2]

alist_append(a, hp, item, mallocOk, answer) ==
  LET d == data_dup(hp, item, mallocOk) IN
  IF d.h = NULL THEN Outcome(a, hp, FALSE, "dup")
  ELSE IF NeedsGrow(a) /\ answer # "block"
    THEN Outcome(ReallocFailed(a, answer), d.heap, FALSE, "grow")
  ELSE LET g == IF NeedsGrow(a) THEN Grow(a) ELSE a IN
       Outcome([g EXCEPT !.data[g.len] = d.h, !.len = g.len + 1],
               d.heap, TRUE, "none")

\* The first build grows before it duplicates.
alist_append_v1(a, hp, item, mallocOk, answer) ==
  IF NeedsGrow(a) /\ answer # "block"
    THEN Outcome(ReallocFailed(a, answer), hp, FALSE, "grow")
  ELSE LET g == IF NeedsGrow(a) THEN Grow(a) ELSE a
           d == data_dup(hp, item, mallocOk) IN
       IF d.h = NULL THEN Outcome(g, hp, FALSE, "dup")
       ELSE Outcome([g EXCEPT !.data[g.len] = d.h, !.len = g.len + 1],
                    d.heap, TRUE, "none")

\* A shift that copies in ascending order and smears data[index] over the
\* tail.
ShiftRight_ascending(data, len, index) ==
  [i \in Slots |-> IF i > index /\ i <= len THEN data[index] ELSE data[i]]

\* for (i = len; i > index; --i) data[i] = data[i - 1];
ShiftRight(data, len, index) ==
  [i \in Slots |-> IF i > index /\ i <= len THEN data[i - 1] ELSE data[i]]

alist_insert(a, hp, index, item, mallocOk, answer) ==
  LET d == data_dup(hp, item, mallocOk) IN
  IF d.h = NULL THEN Outcome(a, hp, FALSE, "dup")
  ELSE IF NeedsGrow(a) /\ answer # "block"
    THEN Outcome(ReallocFailed(a, answer), d.heap, FALSE, "grow")
  ELSE LET g == IF NeedsGrow(a) THEN Grow(a) ELSE a
           s == ShiftRight(g.data, g.len, index) IN
       Outcome([g EXCEPT !.data = [s EXCEPT ![index] = d.h], !.len = g.len + 1],
               d.heap, TRUE, "none")

\* alist_insert_front: alist_insert at index 0 (current build only).
alist_insert_front(a, hp, item, mallocOk, answer) ==
  alist_insert(a, hp, 0, item, mallocOk, answer)

\* The first build grows, shifts, and only then duplicates.
alist_insert_v1(a, hp, index, item, mallocOk, answer) ==
  IF NeedsGrow(a) /\ answer # "block"
    THEN Outcome(ReallocFailed(a, answer), hp, FALSE, "grow")
  ELSE LET g == IF NeedsGrow(a) THEN Grow(a) ELSE a
           s == ShiftRight(g.data, g.len, index)
           d == data_dup(hp, item, mallocOk) IN
       IF d.h = NULL THEN Outcome([g EXCEPT !.data = s], hp, FALSE, "dup")
       ELSE Outcome([g EXCEPT !.data = [s EXCEPT ![index] = d.h],
                              !.len = g.len + 1],
                    d.heap, TRUE, "none")

\* The first build: assert(n > al->capacity), then realloc to n slots.  A
\* failed assertion ends the program (cause "assert").
alist_reserve_v1(a, hp, n, answer) ==
  IF ~(n > a.capacity) THEN Outcome(a, hp, FALSE, "assert")
  ELSE IF answer # "block" THEN Outcome(ReallocFailed(a, answer), hp, FALSE, "grow")
  ELSE Outcome([a EXCEPT !.capacity = n], hp, TRUE, "none")

\* alist_reserve: a no-op when n <= capacity, otherwise realloc to n slots.
alist_reserve(a, hp, n, answer) ==
  IF n <= a.capacity THEN Outcome(a, hp, TRUE, "none")
  ELSE IF answer # "block" THEN Outcome(ReallocFailed(a, answer), hp, FALSE, "grow")
  ELSE Outcome([a EXCEPT !.capacity = n], hp, TRUE, "none")

\* The slots a shrinking realloc gives back are no longer the array's.
Shrink(data, len) == [i \in Slots |-> IF i < len THEN data[i] ELSE NULL]

\* alist_reclaim (alist_trim in an intermediate build): realloc to len slots.
alist_reclaim(a, hp, answer) ==
  IF a.len = a.capacity THEN Outcome(a, hp, TRUE, "none")
  ELSE IF answer # "block" THEN Outcome(ReallocFailed(a, answer), hp, FALSE, "grow")
  ELSE Outcome([a EXCEPT !.data = Shrink(a.data, a.len), !.capacity = a.len],
               hp, TRUE, "none")

\* A set that destroys the old occupant before it duplicates the item.
alist_set_destroy_first(a, hp, index, item, mallocOk) ==
  LET freed == data_destroy(hp, a.data[index])
      d == data_dup(freed, item, mallocOk) IN
  IF d.h = NULL THEN [Outcome(a, freed, FALSE, "dup") EXCEPT !.idx = index]
  ELSE [Outcome([a EXCEPT !.data[index] = d.h], d.heap, TRUE, "none")
          EXCEPT !.idx = index]

\* idx is the index given.
alist_set(a, hp, index, item, mallocOk) ==
  LET d == data_dup(hp, item, mallocOk) IN
  IF d.h = NULL THEN [Outcome(a, hp, FALSE, "dup") EXCEPT !.idx = index]
  ELSE [Outcome([a EXCEPT !.data[index] = d.h],
                data_destroy(d.heap, a.data[index]), TRUE, "none")
          EXCEPT !.idx = index]

\* A swap that forgets the temporary: slot j keeps what it had.
alist_swap_without_temp(a, i, j) == [a EXCEPT !.data[i] = a.data[j]]

alist_swap(a, i, j) ==
  [a EXCEPT !.data[i] = a.data[j], !.data[j] = a.data[i]]

\* A shift that starts one slot too far.
ShiftLeft_from_next(data, len, index) ==
  [i \in Slots |-> IF i > index /\ i < len - 1 THEN data[i + 1] ELSE data[i]]

\* for (i = index; i < len - 1; ++i) data[i] = data[i + 1];
ShiftLeft(data, len, index) ==
  [i \in Slots |-> IF i >= index /\ i < len - 1 THEN data[i + 1] ELSE data[i]]

alist_pop(a, hp, index) ==
  Outcome([a EXCEPT !.data = ShiftLeft(a.data, a.len, index), !.len = a.len - 1],
          data_destroy(hp, a.data[index]), TRUE, "none")

\* A clear that also gives the storage back, down to one slot.
alist_clear_to_one_slot(a, hp) ==
  LET RECURSIVE destroy_from(_, _)
      destroy_from(h, i) ==
        IF i >= a.len THEN h
        ELSE destroy_from(data_destroy(h, a.data[i]), i + 1)
  IN Outcome([a EXCEPT !.len = 0, !.capacity = 1], destroy_from(hp, 0), TRUE, "none")

alist_clear(a, hp) ==
  LET RECURSIVE destroy_from(_, _)
      destroy_from(h, i) ==
        IF i >= a.len THEN h
        ELSE destroy_from(data_destroy(h, a.data[i]), i + 1)
  IN Outcome([a EXCEPT !.len = 0], destroy_from(hp, 0), TRUE, "none")

\* alist_remove: pop the first slot that compares equal to item.
alist_remove(a, hp, item) ==
  LET RECURSIVE scan(_)
      scan(i) ==
        IF i >= a.len
          THEN [Outcome(a, hp, TRUE, "none") EXCEPT !.idx = ALIST_INDEX_NOT_FOUND]
        ELSE IF data_cmp(hp, item, a.data[i]) = 0
          THEN [alist_pop(a, hp, i) EXCEPT !.idx = i]
        ELSE scan(i + 1)
  IN scan(0)

\* A remove_last that scans from the front.
alist_remove_last_from_front(a, hp, item) == alist_remove(a, hp, item)

\* alist_remove_last: for (i = len; i-- > 0;) pop the first match met.
alist_remove_last(a, hp, item) ==
  LET RECURSIVE scan(_)
      scan(i) ==
        IF i = 0
          THEN [Outcome(a, hp, TRUE, "none") EXCEPT !.idx = ALIST_INDEX_NOT_FOUND]
        ELSE IF data_cmp(hp, item, a.data[i - 1]) = 0
          THEN [alist_pop(a, hp, i - 1) EXCEPT !.idx = i - 1]
        ELSE scan(i - 1)
  IN scan(a.len)

\* The item is a block that was freed: passing it to data_cmp reads freed
\* memory.
ItemFreed(hp, item) == item > 0 /\ ~Live(hp, item)

\* What the read of a freed item gives: any value, or a fault that ends the
\* program.
Fault == -1
StaleReads == Values \cup {Fault}

\* data_cmp(item, e, type) where a freed item reads as stale.
data_cmp_item(hp, item, e, stale) ==
  cmp_int(IF ItemFreed(hp, item) THEN stale ELSE Deref(hp, item), Deref(hp, e))

\* alist_remove_all: for (i = len; i-- > 0;) pop every slot that compares
\* equal to item.  i is the loop variable before its decrement; k counts the
\* pops.  The item may be an element of the array (a pointer alist_get gave):
\* the pop of that element frees it.  idx counts the calls of data_cmp made
\* with the item already freed.
alist_remove_all(a, hp, item, stale) ==
  LET RECURSIVE scan(_, _, _, _, _)
      scan(b, h, i, k, u) ==
        IF i = 0 THEN [Outcome(b, h, TRUE, "none") EXCEPT !.k = k, !.idx = u]
        ELSE IF ItemFreed(h, item) /\ stale = Fault
          THEN [Outcome(b, h, FALSE, "fault") EXCEPT !.k = k, !.idx = u + 1]
        ELSE LET v == IF ItemFreed(h, item) THEN u + 1 ELSE u IN
             IF data_cmp_item(h, item, b.data[i - 1], stale) = 0
               THEN LET o == alist_pop(b, h, i - 1) IN
                    scan(o.al, o.heap, i - 1, k + 1, v)
             ELSE scan(b, h, i - 1, k, v)
  IN scan(a, hp, a.len, 0, 0)

\* calist_set: the copy (a failed one ends the program through
\* CALIST_MEM_ERR), then data_destroy of the old element.
calist_set(a, hp, index, new_item, mallocOk) ==
  LET d == data_dup(hp, new_item, mallocOk) IN
  IF d.h = NULL THEN Outcome(a, hp, FALSE, "exit")
  ELSE Outcome([a EXCEPT !.data[index] = d.h],
               data_destroy(d.heap, a.data[index]), TRUE, "none")

\* calist_replace_all: for (i = 0; i < size; ++i) calist_set(al, i, new_item)
\* at every slot that compares equal to old_item; k is the total returned.
\* old_item may be an element of the array: the calist_set of its slot frees
\* it.  idx counts the calls of data_cmp made with old_item already freed;
\* the copy for slot failAt fails.
calist_replace_all(a, hp, old_item, new_item, stale, failAt) ==
  LET RECURSIVE scan(_, _, _, _, _)
      scan(b, h, i, total, u) ==
        IF i >= b.len THEN [Outcome(b, h, TRUE, "none") EXCEPT !.k = total, !.idx = u]
        ELSE IF ItemFreed(h, old_item) /\ stale = Fault
          THEN [Outcome(b, h, FALSE, "fault") EXCEPT !.k = total, !.idx = u + 1]
        ELSE LET v == IF ItemFreed(h, old_item) THEN u + 1 ELSE u IN
             IF data_cmp_item(h, old_item, b.data[i], stale) = 0
               THEN LET o == calist_set(b, h, i, new_item, i # failAt) IN
                    IF ~o.ok THEN [o EXCEPT !.k = total, !.idx = v]
                    ELSE scan(o.al, o.heap, i + 1, total + 1, v)
             ELSE scan(b, h, i + 1, total, v)
  IN scan(a, hp, 0, 0, 0)

\* alist_remove_if: the same loop with pred(data[i]) as the test; pred is
\* given by its answer for each value.
alist_remove_if(a, hp, pred) ==
  LET RECURSIVE scan(_, _, _, _)
      scan(b, h, i, k) ==
        IF i = 0 THEN [Outcome(b, h, TRUE, "none") EXCEPT !.k = k]
        ELSE IF pred[Deref(h, b.data[i - 1])]
          THEN LET o == alist_pop(b, h, i - 1) IN scan(o.al, o.heap, i - 1, k + 1)
        ELSE scan(b, h, i - 1, k)
  IN scan(a, hp, a.len, 0)

\* calist_pop, calist_remove_all and calist_remove_if work on a calist, the
\* same record with len called size; k is the total they return.
calist_pop(a, hp, index) ==
  Outcome([a EXCEPT !.data = ShiftLeft(a.data, a.len, index), !.len = a.len - 1],
          data_destroy(hp, a.data[index]), TRUE, "none")

calist_remove_all(a, hp, item, stale) ==
  LET RECURSIVE scan(_, _, _, _)
      scan(b, h, i, total) ==
        IF i = 0 THEN [Outcome(b, h, TRUE, "none") EXCEPT !.k = total]
        ELSE IF ItemFreed(h, item) /\ stale = Fault
          THEN [Outcome(b, h, FALSE, "fault") EXCEPT !.k = total]
        ELSE IF data_cmp_item(h, item, b.data[i - 1], stale) = 0
          THEN LET o == calist_pop(b, h, i - 1) IN
               scan(o.al, o.heap, i - 1, total + 1)
        ELSE scan(b, h, i - 1, total)
  IN scan(a, hp, a.len, 0)

calist_remove_if(a, hp, pred) ==
  LET RECURSIVE scan(_, _, _, _)
      scan(b, h, i, total) ==
        IF i = 0 THEN [Outcome(b, h, TRUE, "none") EXCEPT !.k = total]
        ELSE IF pred[Deref(h, b.data[i - 1])]
          THEN LET o == calist_pop(b, h, i - 1) IN
               scan(o.al, o.heap, i - 1, total + 1)
        ELSE scan(b, h, i - 1, total)
  IN scan(a, hp, a.len, 0)

\* alist_contains: true at the first slot that compares equal to item.
alist_contains(a, hp, item) ==
  LET RECURSIVE scan(_)
      scan(i) == IF i >= a.len THEN FALSE
                 ELSE IF data_cmp(hp, item, a.data[i]) = 0 THEN TRUE
                 ELSE scan(i + 1)
  IN scan(0)

\* alist_index: the first i from 0 up whose slot compares equal to item.
alist_index(a, hp, item) ==
  LET RECURSIVE scan(_)
      scan(i) == IF i >= a.len THEN ALIST_INDEX_NOT_FOUND
                 ELSE IF data_cmp(hp, item, a.data[i]) = 0 THEN i
                 ELSE scan(i + 1)
  IN scan(0)

\* An index_last that scans from the front.
alist_index_last_from_front(a, hp, item) == alist_index(a, hp, item)

\* alist_index_last: for (i = len; i-- > 0;) the first match met.
alist_index_last(a, hp, item) ==
  LET RECURSIVE scan(_)
      scan(i) == IF i = 0 THEN ALIST_INDEX_NOT_FOUND
                 ELSE IF data_cmp(hp, item, a.data[i - 1]) = 0 THEN i - 1
                 ELSE scan(i - 1)
  IN IF a.len = 0 THEN ALIST_INDEX_NOT_FOUND ELSE scan(a.len)

\* alist_count: ++count at every slot that compares equal to item.
alist_count(a, hp, item) ==
  LET RECURSIVE scan(_, _)
      scan(i, count) ==
        IF i >= a.len THEN count
        ELSE scan(i + 1, IF data_cmp(hp, item, a.data[i]) = 0 THEN count + 1 ELSE count)
  IN scan(0, 0)

\* A remove_range that destroys the element at to_index as well.
alist_remove_range_inclusive(a, hp, from_index, to_index) ==
  LET range == to_index - from_index
      RECURSIVE destroy_from(_, _)
      destroy_from(h, i) ==
        IF i > to_index \/ i >= a.len THEN h
        ELSE destroy_from(data_destroy(h, a.data[i]), i + 1)
      moved == [i \in Slots |->
                  IF i >= from_index /\ i < a.len - range
                    THEN a.data[i + range] ELSE a.data[i]]
  IN Outcome([a EXCEPT !.data = moved, !.len = a.len - range],
             destroy_from(hp, from_index), TRUE, "none")

alist_remove_range(a, hp, from_index, to_index) ==
  LET range == to_index - from_index
      RECURSIVE destroy_from(_, _)
      destroy_from(h, i) ==
        IF i >= to_index THEN h
        ELSE destroy_from(data_destroy(h, a.data[i]), i + 1)
      moved == [i \in Slots |->
                  IF i >= from_index /\ i < a.len - range
                    THEN a.data[i + range] ELSE a.data[i]]
  IN Outcome([a EXCEPT !.data = moved, !.len = a.len - range],
             destroy_from(hp, from_index), TRUE, "none")

alist_reverse(a) ==
  LET RECURSIVE swap_from(_, _)
      swap_from(b, i) ==
        IF i >= b.len \div 2 THEN b
        ELSE swap_from(alist_swap(b, i, b.len - i - 1), i + 1)
  IN swap_from(a, 0)

\* size_t arithmetic wraps.
SizeAdd(x, y) == (x + y) % (SIZE_MAX + 1)
SizeSub(x, y) == (x - y) % (SIZE_MAX + 1)

\* A comparison the wrong way round.
BeyondPivot_reversed(hp, e, pivot) == data_cmp(hp, e, pivot) < 0

\* The test of the partition loop: the element goes to the high end.
BeyondPivot(hp, e, pivot) == data_cmp(hp, e, pivot) > 0

\* The partition step and the recursion of qsort_range.  The pivot is the
\* handle at first; the loop runs i from last down to first + 1.  Yields the
\* data, the number of calls of qsort_range made, and the place pos the
\* pivot of this call went to.
RECURSIVE qsort_range(_, _, _, _)
qsort_range(data, hp, first, last) ==
  IF last <= first THEN [data |-> data, calls |-> 1, pos |-> first]
  ELSE
    LET pivot == data[first]
        RECURSIVE scan(_, _, _)
        scan(d, i, pos) ==
          IF i <= first THEN [data |-> d, pos |-> pos]
          ELSE IF BeyondPivot(hp, d[i], pivot)
            THEN scan([d EXCEPT ![i] = d[pos], ![pos] = d[i]],
                      SizeSub(i, 1), SizeSub(pos, 1))
          ELSE scan(d, SizeSub(i, 1), pos)
        p == scan(data, last, last)
        pos == p.pos
        placed == [p.data EXCEPT ![first] = p.data[pos], ![pos] = p.data[first]]
        low == IF pos > 0 THEN qsort_range(placed, hp, first, SizeSub(pos, 1))
               ELSE [data |-> placed, calls |-> 0, pos |-> 0]
        high == qsort_range(low.data, hp, SizeAdd(pos, 1), last)
    IN [data |-> high.data, calls |-> 1 + low.calls + high.calls, pos |-> pos]

alist_qsort(a, hp) ==
  IF a.len > 0
    THEN LET r == qsort_range(a.data, hp, 0, a.len - 1) IN
         [Outcome([a EXCEPT !.data = r.data], hp, TRUE, "none")
            EXCEPT !.k = r.calls, !.idx = r.pos]
    ELSE Outcome(a, hp, TRUE, "none")

\* alist_append_all: alist_append of src->data[i] for i = 0, 1, ... until one
\* fails.  The allocation of step failAt fails: its data_dup when
\* mallocFails, otherwise its realloc (with the given answer) if it makes one.
\* k counts the appends that succeeded.
alist_append_all(a, hp, s, failAt, mallocFails, answer) ==
  LET RECURSIVE loop(_, _, _)
      loop(b, h, i) ==
        IF i >= s.len THEN [Outcome(b, h, TRUE, "none") EXCEPT !.k = i]
        ELSE LET o == alist_append(b, h, s.data[i],
                                   ~(i = failAt /\ mallocFails),
                                   IF i = failAt /\ ~mallocFails
                                     THEN answer ELSE "block")
             IN IF ~o.ok THEN [o EXCEPT !.k = i]
                ELSE loop(o.al, o.heap, i + 1)
  IN loop(a, hp, 0)

\* for (i = len; i-- > index;) data[i + n] = data[i];
ShiftUp(data, len, index, n) ==
  [i \in Slots |-> IF i >= index + n /\ i < len + n THEN data[i - n] ELSE data[i]]

\* A rollback that leaves the tail where the shift put it.
RestoreShifted_skipped(data, len, index, n) == data

\* for (j = index; j < len; ++j) data[j] = data[j + n];
RestoreShifted(data, len, index, n) ==
  [j \in Slots |-> IF j >= index /\ j < len THEN data[j + n] ELSE data[j]]

\* alist_insert_all: reserve len + src->len slots, shift the tail up by
\* src->len, duplicate src into the gap; when the duplication of step failAt
\* fails, destroy the copies made and move the tail back.  k counts the
\* copies made, idx is the index given.
alist_insert_all(a, hp, index, s, failAt, answer) ==
  LET n == s.len
      r == alist_reserve(a, hp, a.len + n, answer)
      g == r.al
      RECURSIVE dup_from(_, _, _)
      dup_from(d, h, i) ==
        IF i >= n THEN [data |-> d, heap |-> h, failed |-> FALSE, k |-> i]
        ELSE LET c == data_dup(h, s.data[i], i # failAt) IN
             IF c.h = NULL
               THEN [data |-> [d EXCEPT ![index + i] = NULL], heap |-> h,
                     failed |-> TRUE, k |-> i]
               ELSE dup_from([d EXCEPT ![index + i] = c.h], c.heap, i + 1)
      res == dup_from(ShiftUp(g.data, g.len, index, n), hp, 0)
      RECURSIVE destroy_copies(_, _)
      destroy_copies(h, j) ==
        IF j >= res.k THEN h
        ELSE destroy_copies(data_destroy(h, res.data[index + j]), j + 1)
  IN IF ~r.ok THEN [r EXCEPT !.idx = index]
     ELSE IF res.failed
       THEN [Outcome([g EXCEPT !.data = RestoreShifted(res.data, g.len, index, n)],
                     destroy_copies(res.heap, 0), FALSE, "dup")
               EXCEPT !.k = res.k, !.idx = index]
     ELSE [Outcome([g EXCEPT !.data = res.data, !.len = g.len + n], res.heap,
                   TRUE, "none") EXCEPT !.k = res.k, !.idx = index]

\* alist_destroy of a partly built copy whose type field was never written:
\* data_destroy is called through an uninitialised pointer for each of its k
\* elements.  With k = 0 no call is made.  Otherwise the program may end, or
\* the pointer may happen to be the type's and the elements are destroyed.
WildCalls == {"fault", "destroys"}

\* A dup that copies the handles, not the elements.
alist_dup_shallow(a, hp, failAt, wild) ==
  [Outcome([a EXCEPT !.dangling = FALSE], hp, TRUE, "none") EXCEPT !.k = a.len]

\* alist_dup: malloc the struct (fails when failAt = -2), malloc the slots
\* (failAt = -1), then data_dup each element (element failAt fails; none
\* when failAt = len).  al is the copy, k the number of copies made.
alist_dup(a, hp, failAt, wild) ==
  LET RECURSIVE dup_from(_, _, _)
      dup_from(d, h, i) ==
        IF i >= a.len THEN [data |-> d, heap |-> h, k |-> i, failed |-> FALSE]
        ELSE LET c == data_dup(h, a.data[i], i # failAt) IN
             IF c.h = NULL THEN [data |-> d, heap |-> h, k |-> i, failed |-> TRUE]
             ELSE dup_from([d EXCEPT ![i] = c.h], c.heap, i + 1)
      res == dup_from(EmptyData, hp, 0)
      RECURSIVE destroy_from(_, _)
      destroy_from(h, j) ==
        IF j >= res.k THEN h
        ELSE destroy_from(data_destroy(h, res.data[j]), j + 1)
  IN IF failAt < 0 THEN Outcome(a, hp, FALSE, "malloc")
     ELSE IF ~res.failed
       THEN [Outcome([data |-> res.data, len |-> a.len, capacity |-> a.capacity,
                      dangling |-> FALSE], res.heap, TRUE, "none")
               EXCEPT !.k = res.k]
     ELSE IF res.k > 0 /\ wild = "fault"
       THEN [Outcome(a, res.heap, FALSE, "fault") EXCEPT !.k = res.k]
     ELSE [Outcome(a, destroy_from(res.heap, 0), FALSE, "dup") EXCEPT !.k = res.k]

\* alist_get_mutable: the element pointer kept in slot index.
alist_get_mutable(a, index) == a.data[index]

\* int_type(): the address of the one static descriptor of int.
int_type == 1

\* A second descriptor of int, made by datatype_create with the functions
\* of int_type().
user_type == 2

\* The four function pointers datatype_create takes.
Operations == {"dup", "destroy", "print", "cmp"}

\* datatype_create with the function pointers given (TRUE) or NULL (FALSE):
\* the four asserts, then the malloc of the descriptor.  When the malloc
\* fails the first build returns NULL and the current build ends the
\* program through DATATYPE_MEM_ERR.  idx is the number of NULL pointers.
datatype_create(build, given, mallocOk) ==
  LET absent == Cardinality({f \in Operations : ~given[f]})
      o == [al |-> NULL, heap |-> <<>>, ok |-> FALSE, cause |-> "none",
            idx |-> absent, k |-> 0, item |-> NULL]
  IN IF absent > 0 THEN [o EXCEPT !.cause = "assert"]
     ELSE IF ~mallocOk
       THEN [o EXCEPT !.cause = IF build = "v1" THEN "malloc" ELSE "exit"]
     ELSE [o EXCEPT !.ok = TRUE, !.item = user_type]

\* datatype_equals: the two pointers are the same.
datatype_equals(ta, tb) == ta = tb

\* An alist_equals that also wants the two capacities equal.
alist_equals_capacity(a, ta, b, tb, hp) ==
  a.len = b.len /\ a.capacity = b.capacity /\ datatype_equals(ta, tb)
  /\ \A i \in 0..(a.len - 1) : data_cmp(hp, a.data[i], b.data[i]) = 0

\* alist_equals of arrays a of type ta and b of type tb: same len, same
\* descriptor, and data_cmp = 0 at every index.
alist_equals(a, ta, b, tb, hp) ==
  IF a.len # b.len \/ ~datatype_equals(ta, tb) THEN FALSE
  ELSE LET RECURSIVE scan(_)
           scan(i) == IF i >= a.len THEN TRUE
                      ELSE IF data_cmp(hp, a.data[i], b.data[i]) # 0 THEN FALSE
                      ELSE scan(i + 1)
       IN scan(0)

\* calist_count: ++total at every slot that compares equal to item.
calist_count(a, hp, item) == alist_count(a, hp, item)

\* calist_contains: calist_index finds a slot that compares equal to item.
calist_contains(a, hp, item) ==
  \E i \in 0..(a.len - 1) : data_cmp(hp, item, a.data[i]) = 0

\* A remove_last that pops the first slot that compares equal to item.
calist_remove_last_from_front(a, hp, item) ==
  LET i == alist_index(a, hp, item) IN
  IF i = ALIST_INDEX_NOT_FOUND THEN [Outcome(a, hp, TRUE, "none") EXCEPT !.idx = i]
  ELSE [calist_pop(a, hp, i) EXCEPT !.idx = i]

\* calist_remove_last: for (i = size; i-- > 0;) calist_pop at the first slot
\* that compares equal to item; idx is the index returned.
calist_remove_last(a, hp, item) ==
  LET i == alist_index_last(a, hp, item) IN
  IF i = ALIST_INDEX_NOT_FOUND THEN [Outcome(a, hp, TRUE, "none") EXCEPT !.idx = i]
  ELSE [calist_pop(a, hp, i) EXCEPT !.idx = i]

\* calist_append: the copy, then the doubling; a failed allocation ends the
\* program through CALIST_MEM_ERR.
calist_append(a, hp, item, mallocOk, reallocOk) ==
  LET d == data_dup(hp, item, mallocOk) IN
  IF d.h = NULL THEN Outcome(a, hp, FALSE, "exit")
  ELSE IF NeedsGrow(a) /\ ~reallocOk THEN Outcome(a, d.heap, FALSE, "exit")
  ELSE LET g == IF NeedsGrow(a) THEN Grow(a) ELSE a IN
       Outcome([g EXCEPT !.data[g.len] = d.h, !.len = g.len + 1],
               d.heap, TRUE, "none")

\* calist_unique: calist_create (ends the program when failAt = -1), then an
\* append of every element that the new array does not contain yet.  The
\* allocation of the append for slot failAt fails: its data_dup when
\* mallocFails, otherwise its realloc.
calist_unique(a, hp, failAt, mallocFails) ==
  LET RECURSIVE loop(_, _, _)
      loop(u, h, i) ==
        IF i >= a.len THEN Outcome(u, h, TRUE, "none")
        ELSE IF calist_contains(u, h, a.data[i]) THEN loop(u, h, i + 1)
        ELSE LET o == calist_append(u, h, a.data[i],
                                    ~(i = failAt /\ mallocFails),
                                    ~(i = failAt /\ ~mallocFails))
             IN IF ~o.ok THEN o ELSE loop(o.al, o.heap, i + 1)
  IN IF failAt = -1 THEN Outcome(a, hp, FALSE, "exit")
     ELSE loop(alist_create_size(1), hp, 0)

\* calist_remove_dup: for every index i in turn, calist_remove_last of
\* al->data[i] while calist_count of it is above 1; k is the total returned.
calist_remove_dup(a, hp) ==
  LET RECURSIVE loop(_, _, _, _), while(_, _, _, _, _)
      loop(b, h, i, total) ==
        IF i >= b.len THEN [Outcome(b, h, TRUE, "none") EXCEPT !.k = total]
        ELSE while(b, h, i, calist_count(b, h, b.data[i]), total)
      while(b, h, i, count, total) ==
        IF count > 1
          THEN LET o == calist_remove_last(b, h, b.data[i]) IN
               while(o.al, o.heap, i, count - 1, total + 1)
        ELSE loop(b, h, i + 1, total)
  IN loop(a, hp, 0, 0)

\* alist_destroy: data_destroy of every element, then free of the slots and
\* of the struct.  Yields the heap.
alist_destroy(a, hp) ==
  LET RECURSIVE destroy_from(_, _)
      destroy_from(h, i) ==
        IF i >= a.len THEN h
        ELSE destroy_from(data_destroy(h, a.data[i]), i + 1)
  IN destroy_from(hp, 0)

\* The array variable after alist_destroy: it points to a freed struct.
Destroyed == [data |-> EmptyData, len |-> 0, capacity |-> 0, dangling |-> TRUE]

\* The loop shared by alist_slice, alist_filter and alist_from_array of the
\* current build: alist_append(t, ptrs[i]) for each pointer in turn; when an
\* append fails, alist_destroy(t) and NULL.  The allocation of append failAt
\* fails: its data_dup when mallocFails, otherwise its realloc if it makes
\* one.  k counts the appends that succeeded.
AppendEach(t, hp, ptrs, failAt, mallocFails) ==
  LET RECURSIVE loop(_, _, _)
      loop(b, h, i) ==
        IF i >= Len(ptrs) THEN [Outcome(b, h, TRUE, "none") EXCEPT !.k = i]
        ELSE LET o == alist_append(b, h, ptrs[i + 1],
                                   ~(i = failAt /\ mallocFails),
                                   IF i = failAt /\ ~mallocFails
                                     THEN "null" ELSE "block")
             IN IF ~o.ok
                  THEN [Outcome(Destroyed, alist_destroy(o.al, o.heap), FALSE, o.cause)
                          EXCEPT !.k = i]
                  ELSE loop(o.al, o.heap, i + 1)
  IN loop(t, hp, 0)

\* The pointers al->data[i] for i in [from_index, to_index).
PtrsOf(a, from_index, to_index) ==
  [i \in 1..(to_index - from_index) |-> a.data[from_index + i - 1]]

\* alist_slice: alist_create (fails when failAt = -1), then the appends.
alist_slice(a, hp, from_index, to_index, failAt, mallocFails) ==
  IF failAt = -1 THEN Outcome(Destroyed, hp, FALSE, "malloc")
  ELSE AppendEach(alist_create_size(1), hp, PtrsOf(a, from_index, to_index),
                  failAt, mallocFails)

\* alist_filter: alist_create (fails when failAt = -1), then an append of
\* every element that pred holds for.
alist_filter(a, hp, pred, failAt, mallocFails) ==
  IF failAt = -1 THEN Outcome(Destroyed, hp, FALSE, "malloc")
  ELSE AppendEach(alist_create_size(1), hp,
                  SelectSeq(PtrsOf(a, 0, a.len), LAMBDA p : pred[Deref(hp, p)]),
                  failAt, mallocFails)

\* alist_filter of the first build: the result of alist_create is not
\* tested, so after a failed create the first append asserts on NULL; the
\* result of alist_append is not tested either, so an element whose append
\* fails is left out and the loop goes on.
alist_filter_v1(a, hp, pred, failAt, mallocFails) ==
  LET ptrs == SelectSeq(PtrsOf(a, 0, a.len), LAMBDA p : pred[Deref(hp, p)])
      RECURSIVE loop(_, _, _)
      loop(b, h, i) ==
        IF i >= Len(ptrs) THEN [Outcome(b, h, TRUE, "none") EXCEPT !.k = b.len]
        ELSE LET o == alist_append_v1(b, h, ptrs[i + 1],
                                      ~(i = failAt /\ mallocFails),
                                      IF i = failAt /\ ~mallocFails
                                        THEN "null" ELSE "block")
             IN loop(o.al, o.heap, i + 1)
  IN IF failAt = -1
       THEN IF Len(ptrs) > 0 THEN Outcome(Destroyed, hp, FALSE, "assert")
            ELSE Outcome(Destroyed, hp, FALSE, "malloc")
     ELSE loop(alist_create_size(1), hp, 0)

\* alist_from_array: alist_create (fails when failAt = -2), alist_reserve of
\* len slots (its realloc fails when failAt = -1), then the appends.
alist_from_array(arr, hp, failAt, mallocFails) ==
  IF failAt = -2 THEN Outcome(Destroyed, hp, FALSE, "malloc")
  ELSE LET r == alist_reserve(alist_create_size(1), hp, Len(arr),
                              IF failAt = -1 THEN "null" ELSE "block")
       IN IF ~r.ok THEN Outcome(Destroyed, alist_destroy(r.al, r.heap), FALSE, "grow")
          ELSE AppendEach(r.al, r.heap, arr, failAt, mallocFails)

\* int_add_one of main.c: (*int_ptr)++.
int_add_one == [v \in 0..(MaxVal + 1) |-> v + 1]

\* alist_map: map(al->data[i]) for every i, in place.  Yields the heap.
alist_map(a, hp, map) ==
  LET RECURSIVE map_from(_, _)
      map_from(h, i) ==
        IF i >= a.len THEN h
        ELSE map_from([h EXCEPT ![a.data[i]].val = map[@]], i + 1)
  IN map_from(hp, 0)

\* The capacity that doubling from cap reaches for n elements.
RECURSIVE DoubledTo(_, _)
DoubledTo(cap, n) == IF cap >= n THEN cap ELSE DoubledTo(cap * 2, n)

\* No alist_bsearch is running.
NoSearch == [pc |-> "idle", item |-> NULL, low |-> 0, high |-> 0, mid |-> -1,
             result |-> 0]

\* An array of the given elements (handles 1 + base, 2 + base, ...).
ArrayOf(n, base, cap) ==
  [data |-> [i \in Slots |-> IF i < n THEN base + i + 1 ELSE NULL],
   len |-> n, capacity |-> cap, dangling |-> FALSE]

FirstCall == [op |-> "create", ok |-> TRUE, cause |-> "none", idx |-> 0, k |-> 0,
              item |-> NULL]

\* A new array al (alist_create, or alist_create_size with a capacity hint in
\* the current build) and a source array src of the same type that holds
\* the MaxSrc elements 0, 1, ...
Init ==
  /\ impl \in {"v1", "v2"}
  /\ heap = [h \in 1..MaxSrc |-> [val |-> (h - 1) % (MaxVal + 1), frees |-> 0]]
  /\ src = ArrayOf(MaxSrc, 0, DoubledTo(1, MaxSrc))
  /\ \E init_cap \in 1..2 : al = alist_create_size(IF impl = "v1" THEN 1 ELSE init_cap)
  /\ call = FirstCall
  /\ bs = NoSearch

\* No function of alist reads a slot at or beyond len before writing it, so
\* between calls the model keeps no record of what those slots hold.
Forget(a) == [a EXCEPT !.data = [i \in Slots |-> IF i < a.len THEN a.data[i] ELSE NULL]]

\* A call and its outcome; calls that would grow the array beyond the bounds
\* of the model are left out.  No call follows a failed assertion or a fault.
Done(op, o) ==
  /\ call.cause \notin {"assert", "fault"}
  /\ o.al.capacity <= MaxCap
  /\ al' = Forget(o.al)
  /\ heap' = o.heap
  /\ call' = [op |-> op, ok |-> o.ok, cause |-> o.cause, idx |-> o.idx, k |-> o.k,
              item |-> o.item]
  /\ UNCHANGED <<impl, src, bs>>

\* The pointers alist_get gives for the elements of al.
StoredPtrs == {al.data[i] : i \in 0..(al.len - 1)}

\* Room for n more blocks and n more slots within the bounds of the model.
Room(n) == Len(heap) + n <= MaxHeap /\ al.len + n <= MaxCap

CallAppend ==
  /\ Room(1)
  /\ \E item \in CallerPtrs, mallocOk \in BOOLEAN,
        answer \in ReallocAnswers(al.capacity * 2) :
       Done("append",
            [(IF impl = "v1" THEN alist_append_v1(al, heap, item, mallocOk, answer)
              ELSE alist_append(al, heap, item, mallocOk, answer))
               EXCEPT !.item = item])

\* idx is the index given.
CallInsert ==
  /\ Room(1)
  /\ \E index \in 0..al.len, item \in CallerPtrs, mallocOk \in BOOLEAN,
        answer \in ReallocAnswers(al.capacity * 2) :
       Done("insert",
            [(IF impl = "v1"
                THEN alist_insert_v1(al, heap, index, item, mallocOk, answer)
                ELSE alist_insert(al, heap, index, item, mallocOk, answer))
               EXCEPT !.idx = index, !.item = item])

CallAppendAll ==
  /\ impl = "v2"
  /\ Room(src.len)
  /\ \E failAt \in 0..src.len, mallocFails \in BOOLEAN,
        answer \in ReallocAnswers(al.capacity * 2) \ {"block"} :
       Done("append_all",
            alist_append_all(al, heap, src, failAt, mallocFails, answer))

CallInsertAll ==
  /\ impl = "v2"
  /\ Room(src.len)
  /\ \E index \in 0..al.len, failAt \in 0..src.len,
        answer \in ReallocAnswers(al.len + src.len) :
       Done("insert_all",
            alist_insert_all(al, heap, index, src, failAt, answer))

CallSet ==
  /\ Len(heap) < MaxHeap
  /\ \E index \in 0..(al.len - 1), item \in CallerPtrs, mallocOk \in BOOLEAN :
       Done("set", [alist_set(al, heap, index, item, mallocOk) EXCEPT !.item = item])

\* idx is the index given.
CallPop ==
  \E index \in 0..(al.len - 1) :
    Done("pop", [alist_pop(al, heap, index) EXCEPT !.idx = index])

\* The current build asserts len > 0 in the removals by value.
CallRemove ==
  /\ impl = "v2" => al.len > 0
  /\ \E item \in CallerPtrs : Done("remove", [alist_remove(al, heap, item) EXCEPT !.item = item])

CallRemoveLast ==
  /\ impl = "v2" => al.len > 0
  /\ \E item \in CallerPtrs :
       Done("remove_last", [alist_remove_last(al, heap, item) EXCEPT !.item = item])

CallRemoveAll ==
  /\ impl = "v2" => al.len > 0
  /\ \E item \in CallerPtrs \cup StoredPtrs, stale \in StaleReads :
       Done("remove_all",
            [alist_remove_all(al, heap, item, stale) EXCEPT !.item = item])

CallRemoveIf ==
  /\ impl = "v2"
  /\ al.len > 0
  /\ Done("remove_if", alist_remove_if(al, heap, is_odd))

\* idx and k are the from_index and to_index given.
CallRemoveRange ==
  /\ impl = "v2"
  /\ \E from_index \in 0..(al.len - 1) : \E to_index \in from_index..al.len :
       Done("remove_range",
            [alist_remove_range(al, heap, from_index, to_index)
               EXCEPT !.idx = from_index, !.k = to_index])

CallClear == Done("clear", alist_clear(al, heap))

\* k is the n given.
CallReserve ==
  \E n \in 1..MaxCap : \E answer \in ReallocAnswers(n) :
    Done("reserve",
         [(IF impl = "v1" THEN alist_reserve_v1(al, heap, n, answer)
           ELSE alist_reserve(al, heap, n, answer)) EXCEPT !.k = n])

CallReclaim ==
  /\ impl = "v2"
  /\ \E answer \in ReallocAnswers(al.len) :
       Done("reclaim", alist_reclaim(al, heap, answer))

CallSwap ==
  \E i \in 0..(al.len - 1), j \in 0..(al.len - 1) :
    Done("swap", Outcome(alist_swap(al, i, j), heap, TRUE, "none"))

CallReverse ==
  /\ impl = "v2"
  /\ Done("reverse", Outcome(alist_reverse(al), heap, TRUE, "none"))

CallQsort == Done("qsort", alist_qsort(al, heap))

Next ==
  \/ CallAppend
  \/ CallInsert
  \/ CallAppendAll
  \/ CallInsertAll
  \/ CallSet
  \/ CallPop
  \/ CallRemove
  \/ CallRemoveLast
  \/ CallRemoveAll
  \/ CallRemoveIf
  \/ CallRemoveRange
  \/ CallClear
  \/ CallReserve
  \/ CallReclaim
  \/ CallSwap
  \/ CallReverse
  \/ CallQsort

Spec == Init /\ [][Next]_vars

(***************************************************************************)
(* alist_qsort and alist_bsearch on arrays of every content.  alist_bsearch *)
(* is followed iteration by iteration: bs holds its locals, bs.mid the last *)
(* index whose element it read (-1 before the first read).                  *)
(***************************************************************************)

SortValues == 0..(MaxVal + 1)
SortItems == {CallerPtr(v) : v \in SortValues}

\* An array of up to MaxCap - 1 elements, as a sequence of appends to a new
\* array leaves it.
InitSort ==
  /\ impl \in {"v1", "v2"}
  /\ \E n \in 0..(MaxCap - 1) : \E vs \in [1..n -> SortValues] :
       /\ heap = [h \in 1..n |-> [val |-> vs[h], frees |-> 0]]
       /\ al = ArrayOf(n, 0, DoubledTo(1, n))
  /\ src = ArrayOf(0, 0, 1)
  /\ call = FirstCall
  /\ bs = NoSearch

SortQsort ==
  /\ bs.pc # "loop"
  /\ CallQsort

\* The entry of alist_bsearch on an array that alist_qsort has sorted.  The
\* first build asserts len > 0; the current one answers NOT_FOUND for len = 0.
BsearchCall ==
  /\ bs.pc # "loop"
  /\ call.op = "qsort"
  /\ impl = "v1" => al.len > 0
  /\ \E item \in SortItems :
       bs' = IF al.len = 0
               THEN [NoSearch EXCEPT !.pc = "done", !.item = item,
                                     !.result = ALIST_INDEX_NOT_FOUND]
               ELSE [NoSearch EXCEPT !.pc = "loop", !.item = item,
                                     !.high = SizeSub(al.len, 1)]
  /\ UNCHANGED <<impl, heap, al, src, call>>

\* What comparing the element read at index mid with the item can give.  A
\* read at or beyond len is a read of memory that holds no element: it can
\* give any result, or end the program.
ReadAndCompare(mid) ==
  IF mid < al.len
    THEN LET c == data_cmp(heap, al.data[mid], bs.item) IN
         {IF c = 0 THEN "eq" ELSE IF c < 0 THEN "lt" ELSE "gt"}
    ELSE {"lt", "eq", "gt", "fault"}

\* One test of the loop condition and, when it holds, one iteration.
BsearchStep ==
  /\ bs.pc = "loop"
  /\ IF ~(bs.low <= bs.high)
       THEN bs' = [bs EXCEPT !.pc = "done", !.result = ALIST_INDEX_NOT_FOUND]
       ELSE LET mid == SizeAdd(bs.low, bs.high) \div 2 IN
            \E cmp \in ReadAndCompare(mid) :
              bs' = IF cmp = "fault" THEN [bs EXCEPT !.pc = "fault", !.mid = mid]
                    ELSE IF cmp = "eq"
                      THEN [bs EXCEPT !.pc = "done", !.mid = mid, !.result = mid]
                    ELSE IF cmp = "lt"
                      THEN [bs EXCEPT !.mid = mid, !.low = SizeAdd(mid, 1)]
                    ELSE [bs EXCEPT !.mid = mid, !.high = SizeSub(mid, 1)]
  /\ UNCHANGED <<impl, heap, al, src, call>>

NextSort ==
  \/ SortQsort
  \/ BsearchCall
  \/ BsearchStep

SpecSort == InitSort /\ [][NextSort]_vars

(***************************************************************************)
(* alist_set and alist_insert_all on arrays of every content: al holds n   *)
(* elements in a block of any capacity it can have, src holds m.           *)
(***************************************************************************)

InitAny ==
  /\ impl \in {"v1", "v2"}
  /\ \E n \in 0..MaxCap, m \in 0..MaxSrc :
       /\ n + 2 * m <= MaxHeap
       /\ \E vs \in [1..(n + m) -> Values] :
            heap = [h \in 1..(n + m) |-> [val |-> vs[h], frees |-> 0]]
       /\ \E cap \in n..MaxCap :
            /\ cap > 0 \/ impl = "v2"
            /\ al = ArrayOf(n, 0, cap)
       /\ src = ArrayOf(m, n, DoubledTo(1, m))
  /\ call = FirstCall
  /\ bs = NoSearch

NextAny ==
  \/ CallSet
  \/ CallInsertAll

SpecAny == InitAny /\ [][NextAny]_vars

(***************************************************************************)
(* One alist_insert on an array of any content, then alist_pop at the      *)
(* index of the insert.                                                    *)
(***************************************************************************)

RoundInsert ==
  /\ call.op = "create"
  /\ CallInsert

RoundPop ==
  /\ call.op = "insert" /\ call.ok
  /\ Done("pop", [alist_pop(al, heap, call.idx) EXCEPT !.idx = call.idx])

NextRound ==
  \/ RoundInsert
  \/ RoundPop

SpecRound == InitAny /\ [][NextRound]_vars

(***************************************************************************)
(* The removals on arrays of every content.                                *)
(***************************************************************************)

\* The array taken as a calist; calist asserts size > 0.
CallCalistRemoveAll ==
  /\ al.len > 0
  /\ \E item \in CallerPtrs \cup StoredPtrs, stale \in StaleReads :
       Done("calist_remove_all",
            [calist_remove_all(al, heap, item, stale) EXCEPT !.item = item])

CallCalistRemoveIf ==
  /\ al.len > 0
  /\ Done("calist_remove_if", calist_remove_if(al, heap, is_odd))

NextRemove ==
  \/ CallPop
  \/ CallRemove
  \/ CallRemoveLast
  \/ CallRemoveAll
  \/ CallRemoveIf
  \/ CallRemoveRange
  \/ CallCalistRemoveAll
  \/ CallCalistRemoveIf

SpecRemove == InitAny /\ [][NextRemove]_vars

(***************************************************************************)
(* The queries by value on arrays of every content.  A query takes a const *)
(* alist and writes nothing; call.ok, call.idx or call.k is its answer.    *)
(***************************************************************************)

Answer(op, item, ok, idx, k) ==
  Done(op, [Outcome(al, heap, ok, "none") EXCEPT !.item = item, !.idx = idx, !.k = k])

CallContains ==
  \E item \in CallerPtrs \cup StoredPtrs :
    Answer("contains", item, alist_contains(al, heap, item), 0, 0)

CallIndex ==
  \E item \in CallerPtrs \cup StoredPtrs :
    Answer("index", item, TRUE, alist_index(al, heap, item), 0)

CallIndexLast ==
  \E item \in CallerPtrs \cup StoredPtrs :
    Answer("index_last", item, TRUE, alist_index_last(al, heap, item), 0)

CallCount ==
  \E item \in CallerPtrs \cup StoredPtrs :
    Answer("count", item, TRUE, 0, alist_count(al, heap, item))

NextQuery ==
  \/ CallContains
  \/ CallIndex
  \/ CallIndexLast
  \/ CallCount

SpecQuery == InitAny /\ [][NextQuery]_vars

(***************************************************************************)
(* alist_dup of an array of any content into src, then alist_set on the    *)
(* copy, with alist_equals of the two arrays after either.                 *)
(***************************************************************************)

InitDup == InitAny /\ src.len = 0

\* A call that leaves al alone and gives copy as the second array.
DoneCopy(op, o, copy, idx, k, item) ==
  /\ src' = copy
  /\ heap' = o.heap
  /\ call' = [op |-> op, ok |-> o.ok, cause |-> o.cause, idx |-> idx, k |-> k,
              item |-> item]
  /\ UNCHANGED <<impl, al, bs>>

\* al_copy = alist_dup(al); k is the number of copies made.
CallDup ==
  /\ call.op = "create"
  /\ \E failAt \in -2..al.len, wild \in WildCalls :
       LET o == alist_dup(al, heap, failAt, wild) IN
       DoneCopy("dup", o, IF o.ok THEN o.al ELSE src, 0, o.k, NULL)

\* alist_set on the copy; k is 1 when the item compares unequal to the
\* element it replaces, 0 otherwise.
CallSetCopy ==
  /\ call.op = "dup" /\ call.ok
  /\ \E index \in 0..(src.len - 1), item \in CallerPtrs, mallocOk \in BOOLEAN :
       LET o == alist_set(src, heap, index, item, mallocOk) IN
       DoneCopy("set_copy", o, o.al, index,
                IF data_cmp(heap, item, src.data[index]) # 0 THEN 1 ELSE 0, item)

\* alist_equals(al, al_copy) (k = 0) or alist_equals(al_copy, al) (k = 1);
\* the first build has no alist_equals.
CallEquals ==
  /\ impl = "v2"
  /\ call.op \in {"dup", "set_copy"} /\ call.ok
  /\ \E swapped \in BOOLEAN :
       DoneCopy("equals",
                Outcome(al, heap,
                        IF swapped THEN alist_equals(src, int_type, al, int_type, heap)
                        ELSE alist_equals(al, int_type, src, int_type, heap),
                        "none"),
                src, 0, IF swapped THEN 1 ELSE 0, NULL)

NextDup ==
  \/ CallDup
  \/ CallSetCopy
  \/ CallEquals

SpecDup == InitDup /\ [][NextDup]_vars

(***************************************************************************)
(* The claims.                                                             *)
(***************************************************************************)

\* ---- Two arrays over one heap: the producers of a second array ----

\* The calls that make a second array out of al or of a caller's pointers.
Producers == {"dup", "slice", "filter", "from_array"}

\* sub = alist_slice(al, from, to); only the current build has it.
CallSlice ==
  /\ impl = "v2"
  /\ call.op = "create" /\ src.len = 0 /\ al.len > 0
  /\ \E from_index \in 0..(al.len - 1) :
     \E to_index \in from_index..al.len :
     \E failAt \in -1..(to_index - from_index), mallocFails \in BOOLEAN :
       LET o == alist_slice(al, heap, from_index, to_index, failAt, mallocFails) IN
       DoneCopy("slice", o, IF o.ok THEN o.al ELSE src, from_index, to_index, NULL)

\* filtered = alist_filter(al, int_is_odd); k is the number of elements kept.
CallFilter ==
  /\ call.op = "create" /\ src.len = 0
  /\ \E failAt \in -1..al.len, mallocFails \in BOOLEAN :
       LET o == IF impl = "v1"
                  THEN alist_filter_v1(al, heap, is_odd, failAt, mallocFails)
                  ELSE alist_filter(al, heap, is_odd, failAt, mallocFails) IN
       DoneCopy("filter", o, IF o.ok THEN o.al ELSE src, 0, o.k, NULL)

\* al2 = alist_from_array(arr, len, type) for an arr of pointers to the
\* caller's values, or of the first len element pointers of al; only the
\* current build has it.
CallFromArray ==
  /\ impl = "v2"
  /\ call.op = "create" /\ src.len = 0
  /\ \E len \in 0..MaxSrc :
     \E arr \in [1..len -> CallerPtrs]
                  \cup {PtrsOf(al, 0, len) : n \in {len} \cap (0..al.len)} :
     \E failAt \in -2..len, mallocFails \in BOOLEAN :
       LET o == alist_from_array(arr, heap, failAt, mallocFails) IN
       DoneCopy("from_array", o, IF o.ok THEN o.al ELSE src, 0, len, NULL)

\* alist_map(second, int_add_one) right after the second array was made.
CallMapCopy ==
  /\ call.op \in Producers /\ call.ok
  /\ \A i \in 0..(src.len - 1) : heap[src.data[i]].val \in DOMAIN int_add_one
  /\ DoneCopy("map_copy", Outcome(src, alist_map(src, heap, int_add_one), TRUE, "none"),
              src, 0, 0, NULL)

\* alist_destroy(second) right after the second array was made.
CallDestroyCopy ==
  /\ call.op \in Producers /\ call.ok
  /\ DoneCopy("destroy_copy", Outcome(src, alist_destroy(src, heap), TRUE, "none"),
              Destroyed, 0, 0, NULL)

\* The last call made copies of elements of one array for the other.
AfterCopying == call.op \in Producers \cup {"append_all", "insert_all"} /\ call.ok

NextOwn ==
  \/ CallDup
  \/ CallSlice
  \/ CallFilter
  \/ CallFromArray
  \/ CallSetCopy
  \/ CallMapCopy
  \/ CallDestroyCopy
  \/ call.op = "create" /\ CallAppendAll
  \/ call.op = "create" /\ CallInsertAll
  \/ AfterCopying /\ CallPop
  \/ AfterCopying /\ CallClear

SpecOwn == InitAny /\ [][NextOwn]_vars

\* The handles in slots [0, len) of a, in order.
Elems(a) == [i \in 1..a.len |-> a.data[i - 1]]

\* Slots [0, len) are the same in a and b.
SameElems(a, b) == a.len = b.len /\ Elems(a) = Elems(b)

\* The blocks allocated by the step.
NewBlocks == (Len(heap) + 1)..Len(heap')

\* The indices of a whose element compares equal to item.
Matches(a, hp, item) == {i \in 0..(a.len - 1) : data_cmp(hp, item, a.data[i]) = 0}

\* The step destroys the block h once and touches no other block.
DestroysOnly(h) ==
  /\ Len(heap') = Len(heap)
  /\ heap'[h].frees = heap[h].frees + 1
  /\ \A g \in 1..Len(heap) : g # h => heap'[g] = heap[g]

\* al' is al without its element at index t.
Without(t) ==
  /\ al'.len = al.len - 1
  /\ \A j \in 0..(t - 1) : al'.data[j] = al.data[j]
  /\ \A j \in t..(al.len - 2) : al'.data[j] = al.data[j + 1]

\* C1: after every operation of the array API, including calls that report
\* failure and an append issued after reclaim set the capacity to a length
\* of 0, the array satisfies 0 <= length <= capacity.
C1_LenWithinCapacity == 0 <= al.len /\ al.len <= al.capacity

\* C2: in every reachable state each slot in [0, length) holds a handle that
\* data_dup produced, that has not been destroyed, that is not the caller's
\* pointer, and that no other slot of the array holds.
C2_SlotsOwnLiveCopies ==
  \A i \in 0..(al.len - 1) :
    /\ al.data[i] \in 1..Len(heap)
    /\ heap[al.data[i]].frees = 0
    /\ \A j \in 0..(al.len - 1) : j # i => al.data[j] # al.data[i]

\* C3: when insert_all fails because the duplication of the k-th source
\* element fails, it returns false, the k copies already made are each
\* destroyed exactly once and no other block is, and the target has the same
\* length and the same handles in the same order, with the same capacity or a
\* larger one.
C3_InsertAllRollsBack ==
  [][(call'.op = "insert_all" /\ ~call'.ok /\ call'.cause = "dup")
       => /\ SameElems(al, al')
          /\ al'.capacity >= al.capacity
          /\ Len(heap') = Len(heap) + call'.k
          /\ \A h \in NewBlocks : heap'[h].frees = 1
          /\ \A h \in 1..Len(heap) : heap'[h] = heap[h]]_vars

\* insert_all into the middle of an array failed at its second duplication.
C3_Witness ==
  /\ call.op = "insert_all" /\ ~call.ok /\ call.cause = "dup"
  /\ call.k >= 1
  /\ call.idx < al.len

\* C4: an append or insert that returns false because data_dup failed leaves
\* the length and the handles in slots [0, length) as they were.
C4_FailedDupLeavesArray ==
  [][(call'.op \in {"append", "insert"} /\ ~call'.ok /\ call'.cause = "dup")
       => SameElems(al, al')]_vars

\* C5: set duplicates the item, destroys the old occupant and installs the
\* copy; when the duplication fails it returns false, the old occupant is
\* not destroyed and the array is unchanged.
C5_SetDuplicatesFirst ==
  [][call'.op = "set"
       => IF call'.ok
            THEN /\ al'.len = al.len
                 /\ al'.data[call'.idx] \in NewBlocks
                 /\ Deref(heap', al'.data[call'.idx]) \in Values
                 /\ heap'[al.data[call'.idx]].frees = heap[al.data[call'.idx]].frees + 1
                 /\ \A i \in 0..(al.len - 1) : i # call'.idx => al'.data[i] = al.data[i]
                 /\ \A h \in 1..Len(heap) :
                      h # al.data[call'.idx] => heap'[h] = heap[h]
            ELSE al' = al /\ heap' = heap]_vars

\* A set on an array of two or more elements failed at its duplication.
C5_Witness ==
  /\ call.op = "set" /\ ~call.ok /\ call.cause = "dup"
  /\ al.len >= 2

\* C6: when append or insert fails because growing the storage fails, every
\* copy the call created has been destroyed by the time it returns.
C6_FailedGrowLeaksNothing ==
  [][(call'.op \in {"append", "insert"} /\ ~call'.ok /\ call'.cause = "grow")
       => \A h \in NewBlocks : heap'[h].frees > 0]_vars

\* C7: append_all either appends all elements of src and returns true, or
\* returns false with the target's length and elements as before the call.
C7_AppendAllOrNothing ==
  [][call'.op = "append_all"
       => \/ /\ call'.ok
             /\ al'.len = al.len + src.len
             /\ \A i \in 0..(al.len - 1) : al'.data[i] = al.data[i]
             /\ \A i \in 0..(src.len - 1) :
                  /\ al'.data[al.len + i] \in NewBlocks
                  /\ Deref(heap', al'.data[al.len + i]) = Deref(heap, src.data[i])
          \/ /\ ~call'.ok
             /\ SameElems(al, al')]_vars

\* Some element of al compares equal to the item at p.
Contains(p) == \E i \in 0..(al.len - 1) : data_cmp(heap, al.data[i], p) = 0

\* C8: on an array sorted by qsort, bsearch(v) returns an index i in
\* [0, length) with compare(e[i], v) = 0 when some element compares equal to
\* v, and NOT_FOUND when none does.
C8_BsearchCorrect ==
  bs.pc \in {"done", "fault"} =>
    /\ bs.pc = "done"
    /\ IF Contains(bs.item)
         THEN /\ bs.result \in 0..(al.len - 1)
              /\ data_cmp(heap, al.data[bs.result], bs.item) = 0
         ELSE bs.result = ALIST_INDEX_NOT_FOUND

\* C9: during bsearch on a sorted non-empty array every index whose element
\* is read lies in [0, length), and high does not wrap around.
C9_BsearchInBounds ==
  (bs.pc # "idle" /\ al.len > 0) =>
    /\ bs.mid < al.len
    /\ bs.high < al.len

\* C10: after qsort every adjacent pair satisfies compare(e[i], e[i+1]) <= 0,
\* and the recursion of qsort_range ends: it makes at most 2 * length + 1
\* calls.
C10_QsortSorts ==
  call.op = "qsort" =>
    /\ \A i \in 0..(al.len - 2) : data_cmp(heap, al.data[i], al.data[i + 1]) <= 0
    /\ call.k <= 2 * al.len + 1

\* qsort has sorted an array of three or more elements with two equal ones
\* among them, whose first pivot went to index 0.
C10_Witness ==
  /\ call.op = "qsort"
  /\ al.len >= 3
  /\ call.idx = 0
  /\ data_cmp(heap, al.data[0], al.data[1]) < 0
  /\ data_cmp(heap, al.data[1], al.data[2]) = 0

\* C11: a successful append or insert on an array whose length equals its
\* capacity sets the capacity to exactly twice its previous value, and one
\* with length below capacity leaves the capacity as it was.
C11_GrowthDoubles ==
  [][(call'.op \in {"append", "insert"} /\ call'.ok)
       => /\ al.len = al.capacity => al'.capacity = 2 * al.capacity
          /\ al.len < al.capacity => al'.capacity = al.capacity]_vars

\* Three elements were added one at a time to an array created with the
\* default capacity; the capacity is 4.
C11_Witness ==
  /\ call.op = "append" /\ call.ok
  /\ al.len = 3 /\ al.capacity = 4
  /\ Len(heap) = MaxSrc + 3

\* C12: pop, remove, remove_last, remove_all, remove_if, remove_range,
\* clear, set, swap, reverse and qsort leave the capacity as it was, and
\* reserve leaves it as it was or larger: only reclaim lowers a capacity.
C12_CapacityNeverShrinks ==
  [][/\ call'.op \in {"pop", "remove", "remove_last", "remove_all", "remove_if",
                      "remove_range", "clear", "set", "swap", "reverse", "qsort"}
          => al'.capacity = al.capacity
     /\ call'.op = "reserve" => al'.capacity >= al.capacity]_vars

\* An array of capacity 4 was emptied by clear and kept its capacity.
C12_Witness ==
  /\ call.op = "clear"
  /\ al.len = 0 /\ al.capacity = 4
  /\ \E h \in 1..Len(heap) : heap[h].frees > 0

\* C13: reserve(n) with n above the capacity sets the capacity to n and
\* returns true when it succeeds; with n at or below the capacity it returns
\* true and does nothing; in both cases length and elements are as before
\* and the capacity is not lower.
C13_Reserve ==
  [][call'.op = "reserve"
       => /\ (call'.k > al.capacity /\ call'.ok) => al'.capacity = call'.k
          /\ call'.k <= al.capacity => (call'.ok /\ al' = al)
          /\ SameElems(al, al')
          /\ al'.capacity >= al.capacity]_vars

\* C14: for every index i in 0..len and every value, a successful
\* insert(i, v) followed by pop(i) gives back the array as it was before the
\* insert: same length, same handles in the same order (the array began as
\* handles 1, 2, ... in slots 0, 1, ...); the copy made by the insert, the
\* block allocated last, is destroyed once and no other block is.
C14_InsertThenPop ==
  call.op = "pop"
    => /\ al.len = Len(heap) - src.len - 1
       /\ \A i \in 0..(al.len - 1) : al.data[i] = i + 1
       /\ heap[Len(heap)].frees = 1
       /\ \A h \in 1..(Len(heap) - 1) : heap[h].frees = 0

\* An insert before the end of an array of two or more elements was undone
\* by a pop at the same index.
C14_Witness ==
  /\ call.op = "pop"
  /\ al.len >= 2
  /\ call.idx < al.len

\* C15: a successful insert(index, item) with 0 <= index <= len yields
\* old[0..index) ++ [copy of item] ++ old[index..len) with the length one
\* more, the copy being a new block that holds the item's value; at
\* index = len it gives what append gives, and insert_front gives what
\* insert at index 0 gives.
C15_InsertPlaces ==
  [][(call'.op = "insert" /\ call'.ok)
       => LET index == call'.idx
              item == call'.item
          IN /\ al'.len = al.len + 1
             /\ \A j \in 0..(index - 1) : al'.data[j] = al.data[j]
             /\ \A j \in index..(al.len - 1) : al'.data[j + 1] = al.data[j]
             /\ al'.data[index] \in NewBlocks
             /\ heap'[al'.data[index]] = [val |-> Deref(heap, item), frees |-> 0]
             /\ \A h \in 1..Len(heap) : heap'[h] = heap[h]
             /\ index = al.len =>
                  LET o == IF impl = "v1"
                             THEN alist_append_v1(al, heap, item, TRUE, "block")
                             ELSE alist_append(al, heap, item, TRUE, "block")
                  IN o.ok /\ al' = Forget(o.al) /\ heap' = o.heap
             /\ (index = 0 /\ impl = "v2") =>
                  LET o == alist_insert_front(al, heap, item, TRUE, "block")
                  IN o.ok /\ al' = Forget(o.al) /\ heap' = o.heap]_vars

\* An insert put its copy between two elements of the array.
C15_Witness ==
  /\ call.op = "insert" /\ call.ok
  /\ 0 < call.idx /\ call.idx < al.len - 1
  /\ Deref(heap, al.data[call.idx]) = Deref(heap, call.item)

\* C16: remove(item) deletes exactly the element at the smallest index whose
\* element compares equal to item and returns that index, remove_last does
\* so for the largest such index; when no element compares equal both return
\* NOT_FOUND and leave the array unchanged.  The other elements keep their
\* order.
C16_RemoveFirstLast ==
  [][call'.op \in {"remove", "remove_last"}
       => LET M == Matches(al, heap, call'.item)
              t == IF call'.op = "remove"
                     THEN CHOOSE i \in M : \A j \in M : i <= j
                     ELSE CHOOSE i \in M : \A j \in M : i >= j
          IN IF M = {}
               THEN call'.idx = ALIST_INDEX_NOT_FOUND /\ al' = al /\ heap' = heap
               ELSE call'.idx = t /\ Without(t) /\ DestroysOnly(al.data[t])]_vars

\* remove_last took the last of several elements equal to the item: one of
\* them is still there, before the index returned.
C16_Witness ==
  /\ call.op = "remove_last"
  /\ call.idx < al.len
  /\ \E j \in 0..(call.idx - 1) : data_cmp(heap, call.item, al.data[j]) = 0

\* C17: after remove_all(item) no element compares equal to item and after
\* remove_if(pred) none satisfies pred; what is left is exactly the elements
\* of the original array that do not match, in their order; each element
\* removed is destroyed once; the calist variants return the number removed.
C17_RemoveAllMatching ==
  [][call'.op \in {"remove_all", "remove_if", "calist_remove_all", "calist_remove_if"}
       => LET Hit(h) == IF call'.op \in {"remove_all", "calist_remove_all"}
                          THEN data_cmp(heap, call'.item, h) = 0
                          ELSE is_odd[Deref(heap, h)]
              Kept(h) == ~Hit(h)
              gone == {al.data[i] : i \in {j \in 0..(al.len - 1) : Hit(al.data[j])}}
          IN /\ Elems(al') = SelectSeq(Elems(al), Kept)
             /\ \A i \in 0..(al'.len - 1) : ~Hit(al'.data[i])
             /\ Len(heap') = Len(heap)
             /\ \A h \in 1..Len(heap) :
                  heap'[h] = IF h \in gone THEN [heap[h] EXCEPT !.frees = @ + 1]
                             ELSE heap[h]
             /\ call'.op \in {"calist_remove_all", "calist_remove_if"}
                  => call'.k = Cardinality(gone)]_vars

\* C18: remove_range(from, to) with from < len and from <= to <= len
\* destroys exactly the elements at indices [from, to), each once, leaves
\* old[0..from) ++ old[to..len) in order and lowers the length by to - from;
\* with from = to the contents are as before.
C18_RemoveRange ==
  [][call'.op = "remove_range"
       => LET from == call'.idx
              to == call'.k
              gone == {al.data[i] : i \in from..(to - 1)}
          IN /\ al'.len = al.len - (to - from)
             /\ \A j \in 0..(from - 1) : al'.data[j] = al.data[j]
             /\ \A j \in to..(al.len - 1) : al'.data[j - (to - from)] = al.data[j]
             /\ Len(heap') = Len(heap)
             /\ \A h \in 1..Len(heap) :
                  heap'[h] = IF h \in gone THEN [heap[h] EXCEPT !.frees = @ + 1]
                             ELSE heap[h]
             /\ from = to => (al' = al /\ heap' = heap)]_vars

\* remove_range took two or more elements out of the middle of an array.
C18_Witness ==
  /\ call.op = "remove_range"
  /\ call.k - call.idx >= 2
  /\ 0 < call.idx /\ call.idx < al.len

\* C19: index returns the smallest index whose element compares equal to
\* the item, index_last the largest, count the number of such indices, and
\* contains is true exactly when that number is above 0; index and
\* index_last return NOT_FOUND exactly when it is 0; no query changes the
\* array or an element.
C19_Queries ==
  [][call'.op \in {"contains", "index", "index_last", "count"}
       => LET item == call'.item
              M == Matches(al, heap, item)
          IN /\ al' = al /\ heap' = heap
             /\ call'.op = "contains" =>
                  /\ call'.ok = (M # {})
                  /\ call'.ok = (alist_count(al, heap, item) > 0)
             /\ call'.op = "index" =>
                  /\ IF M = {} THEN call'.idx = ALIST_INDEX_NOT_FOUND
                     ELSE call'.idx \in M /\ \A j \in M : call'.idx <= j
                  /\ (call'.idx = ALIST_INDEX_NOT_FOUND) = (alist_count(al, heap, item) = 0)
             /\ call'.op = "index_last" =>
                  /\ IF M = {} THEN call'.idx = ALIST_INDEX_NOT_FOUND
                     ELSE call'.idx \in M /\ \A j \in M : call'.idx >= j
                  /\ (call'.idx = ALIST_INDEX_NOT_FOUND) = (alist_count(al, heap, item) = 0)
             /\ call'.op = "count" => call'.k = Cardinality(M)]_vars

\* index_last answered for an item that several elements compare equal to:
\* index gives a smaller index for it.
C19_Witness ==
  /\ call.op = "index_last"
  /\ call.idx < al.len
  /\ alist_index(al, heap, call.item) < call.idx

\* C20: equals(A, dup(A)) and equals(dup(A), A) are true; after a set on
\* the copy with a value that compares unequal to the old one equals(A, copy)
\* is false (in either order), and the set leaves A and its elements as they
\* were.
C20_DupThenEquals ==
  [][/\ (call.op = "dup" /\ call.ok /\ call'.op = "equals") => call'.ok
     /\ (call.op = "set_copy" /\ call.ok /\ call.k = 1 /\ call'.op = "equals")
          => ~call'.ok
     /\ call'.op = "set_copy"
          => /\ al' = al
             /\ \A i \in 0..(al.len - 1) :
                  /\ al.data[i] \in 1..Len(heap)
                  /\ heap'[al.data[i]] = heap[al.data[i]]]_vars

\* equals answered false for an array of two or more elements and its copy
\* after a set on the copy.
C20_Witness ==
  /\ call.op = "equals" /\ ~call.ok
  /\ al.len >= 2
  /\ src.len = al.len

\* ---- alist_equals of two arrays and their descriptors ----

\* alist_equals(al, second) where al has the descriptor idx and the second
\* array the descriptor k; ok is the answer.
CallEqualsTyped ==
  /\ call.op \in {"create", "dup", "set_copy", "reserve", "reclaim"} /\ call.ok
  /\ \E ta \in {int_type, user_type}, tb \in {int_type, user_type} :
       DoneCopy("equals_typed",
                Outcome(al, heap, alist_equals(al, ta, src, tb, heap), "none"),
                src, ta, tb, NULL)

\* alist_reserve or alist_reclaim of al once the copy is made.
CallResize ==
  /\ call.op \in {"dup", "set_copy"} /\ call.ok
  /\ (CallReserve \/ CallReclaim)
  /\ call'.ok

NextEq ==
  \/ CallDup
  \/ CallSetCopy
  \/ CallResize
  \/ CallEqualsTyped

SpecEq == InitAny /\ [][NextEq]_vars

\* ---- The calls that enlarge the slot storage ----

NextGrow ==
  \/ CallAppend
  \/ CallInsert
  \/ CallReserve

SpecGrow == Init /\ [][NextGrow]_vars

\* ---- calist_unique and calist_remove_dup ----

\* al_copy = calist_unique(al).
CallUnique ==
  /\ impl = "v2"
  /\ call.op = "create"
  /\ \E failAt \in -1..al.len, mallocFails \in BOOLEAN :
       LET o == calist_unique(al, heap, failAt, mallocFails) IN
       DoneCopy("unique", o, IF o.ok THEN o.al ELSE src, 0, 0, NULL)

\* calist_remove_dup(al) once the unique copy is made; idx is the size of
\* al before the call and k the count returned.
CallRemoveDup ==
  /\ call.op = "unique" /\ call.ok
  /\ Done("remove_dup", [calist_remove_dup(al, heap) EXCEPT !.idx = al.len])

NextUnique ==
  \/ CallUnique
  \/ CallRemoveDup

SpecUnique == InitDup /\ [][NextUnique]_vars

\* ---- datatype_create ----

\* type = datatype_create(size, dup, destroy, print, cmp) before any other
\* call; item is the descriptor returned.
CallDatatypeCreate ==
  /\ call.op = "create"
  /\ \E given \in [Operations -> BOOLEAN], mallocOk \in BOOLEAN :
       LET o == datatype_create(impl, given, mallocOk) IN
       /\ call' = [op |-> "datatype_create", ok |-> o.ok, cause |-> o.cause,
                   idx |-> o.idx, k |-> o.k, item |-> o.item]
       /\ UNCHANGED <<impl, heap, al, src, bs>>

NextType ==
  \/ CallDatatypeCreate

SpecType == InitAny /\ [][NextType]_vars

\* ---- alist_append_all(al, al), one turn of its loop at a time ----

\* alist_append_all(al, al) is entered: src and al are the same array.  k is
\* the length at entry and idx the loop's i.
CallAppendAllSelf ==
  /\ impl = "v2"
  /\ call.op = "create"
  /\ call' = [op |-> "append_all_self", ok |-> TRUE, cause |-> "running",
              idx |-> 0, k |-> al.len, item |-> NULL]
  /\ UNCHANGED <<impl, heap, al, src, bs>>

\* One test of i < src->len, where src->len is the length al has now, and,
\* when it holds, alist_append(al, src->data[i]) and ++i; the call returns
\* true when the test fails and false when the append fails.
AppendAllSelfStep ==
  /\ call.op = "append_all_self" /\ call.cause = "running"
  /\ IF call.idx >= al.len
       THEN /\ call' = [call EXCEPT !.cause = "none"]
            /\ UNCHANGED <<impl, heap, al, src, bs>>
       ELSE /\ Room(1)
            /\ \E mallocOk \in BOOLEAN, answer \in ReallocAnswers(al.capacity * 2) :
                 LET o == alist_append(al, heap, al.data[call.idx], mallocOk, answer) IN
                 /\ o.al.capacity <= MaxCap
                 /\ al' = Forget(o.al)
                 /\ heap' = o.heap
                 /\ call' = IF o.ok THEN [call EXCEPT !.idx = @ + 1]
                            ELSE [call EXCEPT !.ok = FALSE, !.cause = o.cause]
                 /\ UNCHANGED <<impl, src, bs>>

NextSelf ==
  \/ call.op = "create" /\ CallAppendAll
  \/ CallAppendAllSelf
  \/ AppendAllSelfStep

SpecSelf == InitAny /\ [][NextSelf]_vars

\* ---- The calls that only rearrange: swap, reverse, qsort ----

NextOrder ==
  \/ CallSwap
  \/ CallReverse
  \/ CallQsort

SpecOrder == InitAny /\ [][NextOrder]_vars

\* ---- An item that is an element of the array it is given to ----

\* calist_replace_all(al, old_item, new_item) with old_item a pointer to a
\* caller's value or one that calist_get gave for al; item is old_item.
CallCalistReplaceAll ==
  /\ impl = "v2"
  /\ call.op = "create"
  /\ \E old_item \in CallerPtrs \cup StoredPtrs, new_item \in CallerPtrs,
        stale \in StaleReads, failAt \in 0..al.len :
       Done("calist_replace_all",
            [calist_replace_all(al, heap, old_item, new_item, stale, failAt)
               EXCEPT !.item = old_item])

NextAlias ==
  \/ call.op = "create" /\ CallRemoveAll
  \/ CallCalistReplaceAll

SpecAlias == InitAny /\ [][NextAlias]_vars

\* The handles held in slots [0, len) of a.
Handles(a) == {a.data[i] : i \in 0..(a.len - 1)}

\* C21: no element handle is held by two arrays at once.  The array a
\* producer (dup, slice, filter, from_array) returns holds only blocks the
\* call allocated, and so do the slots append_all and insert_all add; a call
\* on the second array leaves every element of al as it was, and a call on
\* al leaves every element of the second array as it was.
C21_NoSharedElement ==
  [][/\ Handles(al') \cap Handles(src') = {}
     /\ (call'.op \in Producers /\ call'.ok) =>
          /\ Handles(src') \subseteq NewBlocks
          /\ \A h \in Handles(al) : heap'[h] = heap[h]
     /\ (call'.op \in {"append_all", "insert_all"} /\ call'.ok) =>
          /\ Handles(al') \ Handles(al) \subseteq NewBlocks
          /\ \A h \in Handles(src) : heap'[h] = heap[h]
     /\ call'.op \in {"set_copy", "map_copy", "destroy_copy"} =>
          \A h \in Handles(al) : heap'[h] = heap[h]
     /\ call'.op \in {"pop", "clear"} =>
          \A h \in Handles(src) : heap'[h] = heap[h]]_vars

\* C21 witness: a second array of at least two elements was produced from al
\* and then destroyed, and every element of al is still live.
C21_Witness ==
  /\ call.op = "destroy_copy"
  /\ al.len >= 2
  /\ \E h \in 1..Len(heap) : heap[h].frees = 1
  /\ \A h \in Handles(al) : Live(heap, h)
  /\ Cardinality({h \in 1..Len(heap) : heap[h].frees = 1}) >= 2

\* C22: alist_equals(a, b) is true exactly when the two arrays have the same
\* length, the same descriptor instance, and elements that compare equal at
\* every index; the capacities play no role, and the answer is the same with
\* the two arguments exchanged.
C22_EqualsExactly ==
  call.op = "equals_typed" =>
    /\ call.ok <=> /\ al.len = src.len
                   /\ call.idx = call.k
                   /\ \A i \in 0..(al.len - 1) :
                        data_cmp(heap, al.data[i], src.data[i]) = 0
    /\ call.ok = alist_equals(src, call.k, al, call.idx, heap)
    /\ \A c \in al.len..MaxCap :
         call.ok = alist_equals([al EXCEPT !.capacity = c], call.idx, src, call.k, heap)

\* C22 witness: two arrays of three elements each, of different capacities,
\* compared equal.
C22_Witness ==
  /\ call.op = "equals_typed" /\ call.ok
  /\ al.len = 3 /\ src.len = 3
  /\ al.capacity # src.capacity

\* The handle h is one that alist_get_mutable gives for some index of a.
Designates(a, h) == \E j \in 0..(a.len - 1) : alist_get_mutable(a, j) = h

\* The step is an append, insert or reserve that enlarged the slot storage.
Reallocates ==
  /\ call'.op \in {"append", "insert", "reserve"}
  /\ al'.capacity > al.capacity

\* C23 as stated: after an append, insert or reserve that reallocates the
\* backing storage, a handle that get_mutable returned before the call no
\* longer designates a live element owned by the array.
C23_HandleInvalidated ==
  [][(Reallocates /\ call'.ok) =>
       \A i \in 0..(al.len - 1) :
         LET h == alist_get_mutable(al, i) IN
         ~(Live(heap', h) /\ Designates(al', h))]_vars

\* C23 amended: after any append, insert or reserve that succeeds,
\* reallocating or not, a handle that get_mutable returned for a live
\* element before the call still designates a live element owned by the
\* array, with the value it had.
C23_HandleSurvives ==
  [][(call'.op \in {"append", "insert", "reserve"} /\ call'.ok) =>
       \A i \in 0..(al.len - 1) :
         LET h == alist_get_mutable(al, i) IN
         Live(heap, h) =>
           /\ Live(heap', h)
           /\ Designates(al', h)
           /\ heap'[h] = heap[h]]_vars

\* C23 witness: an append has just doubled the capacity of an array of two
\* elements to four, and all three elements are live.
C23_Witness ==
  /\ call.op = "append" /\ call.ok
  /\ al.len = 3 /\ al.capacity = 4
  /\ \A i \in 0..2 : Live(heap, alist_get_mutable(al, i))

\* The values of the elements of a, in order.
ValuesOf(a, hp) == [i \in 1..a.len |-> Deref(hp, a.data[i - 1])]

\* C24: the array alist_filter returns holds duplicates of exactly the
\* elements of the source that satisfy the predicate, in the source's order,
\* and the source is unchanged; an alist_map on the filtered array afterwards
\* does not change the source.
C24_FilterExact ==
  [][/\ (call'.op = "filter" /\ call'.ok) =>
          /\ ValuesOf(src', heap') = SelectSeq(ValuesOf(al, heap), LAMBDA v : is_odd[v])
          /\ Handles(src') \subseteq NewBlocks
          /\ al' = al
          /\ \A h \in Handles(al) : heap'[h] = heap[h]
     /\ (call'.op = "map_copy" /\ call.op = "filter") =>
          /\ al' = al
          /\ \A h \in Handles(al) : heap'[h] = heap[h]
          /\ ValuesOf(src', heap') = [i \in 1..src.len |-> int_add_one[ValuesOf(src, heap)[i]]]]_vars

\* The indices of a whose element compares unequal to every earlier one.
FirstOccurrences(a, hp) ==
  {i \in 0..(a.len - 1) : \A j \in 0..(i - 1) : data_cmp(hp, a.data[j], a.data[i]) # 0}

\* C25: calist_remove_dup keeps exactly the first occurrence of each value,
\* in order, and destroys every other element once; afterwards the array
\* equals the calist_unique made of the original, and the count returned is
\* the original size less the new size.
C25_RemoveDupIsUnique ==
  [][call'.op = "remove_dup" =>
       /\ Handles(al') = {al.data[i] : i \in FirstOccurrences(al, heap)}
       /\ \A i, j \in 0..(al'.len - 1) :
            i < j => \E x, y \in FirstOccurrences(al, heap) :
                       x < y /\ al.data[x] = al'.data[i] /\ al.data[y] = al'.data[j]
       /\ \A i \in 0..(al.len - 1) :
            heap'[al.data[i]].frees = IF i \in FirstOccurrences(al, heap) THEN 0 ELSE 1
       /\ alist_equals(al', int_type, src', int_type, heap')
       /\ call'.k = al.len - al'.len
       /\ al'.capacity = al.capacity]_vars

\* C25 witness: two duplicates were removed from an array of four elements
\* whose first two values differ.
C25_Witness ==
  /\ call.op = "remove_dup" /\ call.idx = 4 /\ call.k = 2
  /\ al.len = 2 /\ src.len = 2
  /\ Cardinality({h \in 1..Len(heap) : heap[h].frees = 1}) = 2

\* C26: datatype_create fails by returning an error result, without ending
\* the program, whenever one of the four operation handles is absent.
C26_CreateRejectsAbsent ==
  (call.op = "datatype_create" /\ call.idx > 0) =>
    /\ ~call.ok
    /\ call.item = NULL
    /\ call.cause \notin {"assert", "exit", "fault"}

\* C27: alist_append_all appends exactly the elements the source held when
\* the call began, and returns, also when the source is the target: the
\* target never holds more than its elements at entry and one copy of each
\* source element, and that is what it holds when the call returns true.
C27_AppendAllExact ==
  [][/\ (call'.op = "append_all" /\ call'.ok) =>
          ValuesOf(al', heap') = ValuesOf(al, heap) \o ValuesOf(src, heap)
     /\ call'.op = "append_all_self" =>
          /\ al'.len <= 2 * call'.k
          /\ (call'.cause = "none" /\ call'.ok) =>
               /\ al'.len = 2 * call'.k
               /\ \A i \in 0..(call'.k - 1) :
                    Deref(heap', al'.data[call'.k + i]) = Deref(heap', al'.data[i])]_vars

\* C28: when alist_dup fails at the duplication of element k (k >= 1), the k
\* copies made are each destroyed once, NULL is returned and the source is
\* unchanged; the descriptor of the partly built copy is not read before it
\* is set, so the destroy calls are those of the source's descriptor and the
\* program goes on.
C28_DupFailureCleansUp ==
  [][(call'.op = "dup" /\ ~call'.ok /\ call'.k >= 1) =>
       /\ call'.cause = "dup"
       /\ Cardinality(NewBlocks) = call'.k
       /\ \A h \in NewBlocks : heap'[h].frees = 1
       /\ al' = al /\ src' = src
       /\ \A h \in Handles(al) : heap'[h] = heap[h]]_vars

\* The number of slots of a below len that hold the handle h.
Copies(a, h) == Cardinality({i \in 0..(a.len - 1) : a.data[i] = h})

\* C29: alist_qsort, alist_reverse and alist_swap only rearrange the stored
\* handles: every handle is held in as many slots after the call as before,
\* len and capacity are unchanged, and no element is duplicated or destroyed
\* (the heap is as it was, so is the second array).
C29_RearrangeOnly ==
  [][call'.op \in {"qsort", "reverse", "swap"} =>
       /\ \A h \in Handles(al) \cup Handles(al') : Copies(al', h) = Copies(al, h)
       /\ al'.len = al.len
       /\ al'.capacity = al.capacity
       /\ heap' = heap
       /\ src' = src]_vars

\* C29 witness: a qsort that moved elements of a four-element array, the
\* four handles still all there and live.
C29_Witness ==
  /\ call.op = "qsort" /\ call.k > 1
  /\ al.len = 4
  /\ al.data[0] # 1
  /\ Handles(al) = 1..4
  /\ \A h \in 1..4 : Live(heap, h)

\* C30: alist_remove_all and calist_replace_all never give an element that
\* was already destroyed to the compare function, also when the item is a
\* pointer that get returned for the same array.
C30_NoDestroyedItemCompared ==
  call.op \in {"remove_all", "calist_replace_all"} =>
    /\ call.idx = 0
    /\ call.cause # "fault"

====
